---- MODULE Spec2Model ----
(***************************************************************************)
(* A model of manager/dataset_manager.py: createMirroredDataset, the one   *)
(* routine of the repository.  A Python str is a sequence of one-character *)
(* strings; a text the routine only compares or copies whole (a dict key,  *)
(* a fixed folder name, a literal prefix) is kept as one element.  A dict  *)
(* is the sequence of its items in insertion order, a path the sequence of *)
(* its components, the filesystem a function from the existing paths to    *)
(* their nodes.                                                            *)
(***************************************************************************)
EXTENDS Integers, Sequences, FiniteSets, TLC

VARIABLES
    fs,          \* the filesystem: existing path -> [kind, data]
    concurrent,  \* TRUE: the caller runs the invocations in parallel threads
    pc,          \* per invocation: the statement it is about to execute
    args,        \* per invocation: session_info, scan_info, primary_save_path
    loc,         \* per invocation: the locals of createMirroredDataset
    ret,         \* per invocation: what the call gave its caller
    log,         \* per invocation: the lines it printed
    fs0,         \* per invocation: the filesystem when it was called
    metaEvents   \* the opens and closes of metadata.json, in order

vars == <<fs, concurrent, pc, args, loc, ret, log, fs0, metaEvents>>

\* How many invocations the caller makes one after the other.
MaxCalls == 2

\* How many lines of metadata.json the file object buffers before it writes them
\* out: a longer record reaches the file in two writes, the second at the close.
BufferLines == 11

Calls == 1..MaxCalls

\* The two simultaneous invocations of the concurrent scenario.
Threads == {1, 2}

-----------------------------------------------------------------------------
(* Strings *)

Digit == <<"0", "1", "2", "3", "4", "5", "6", "7", "8", "9">>

IsDigitChar(c) == \E i \in 1..10 : Digit[i] = c

DigitVal(c) == (CHOOSE i \in 1..10 : Digit[i] = c) - 1

IsDigits(s) == \A i \in 1..Len(s) : IsDigitChar(s[i])

RECURSIVE Num(_)
\* int(s) of a string of decimal digits
Num(s) == IF s = <<>> THEN 0
          ELSE 10 * Num(SubSeq(s, 1, Len(s) - 1)) + DigitVal(s[Len(s)])

RECURSIVE Digits(_)
\* str(n) of a natural number
Digits(n) == IF n < 10 THEN <<Digit[n + 1]>>
             ELSE Digits(n \div 10) \o <<Digit[(n % 10) + 1]>>

\* '%02d' % n
Pad2(n) == IF n < 10 THEN <<"0">> \o Digits(n) ELSE Digits(n)

\* str.startswith
StartsWith(s, prefix) ==
    /\ Len(prefix) <= Len(s)
    /\ SubSeq(s, 1, Len(prefix)) = prefix

\* str.endswith
EndsWith(s, suffix) ==
    /\ Len(suffix) <= Len(s)
    /\ SubSeq(s, Len(s) - Len(suffix) + 1, Len(s)) = suffix

\* str.replace(old, new) for one-character old and new
Replace(s, old, new) == [i \in 1..Len(s) |-> IF s[i] = old THEN new ELSE s[i]]

\* os.path.splitext(p)[0] of a name without separators: the name up to its last
\* dot, unless only dots come before that dot (a leading dot starts no extension)
SplitextRoot(p) ==
    LET dots == {i \in 1..Len(p) : p[i] = "."}
    IN  IF dots = {} THEN p
        ELSE LET d == CHOOSE i \in dots : \A j \in dots : j <= i
             IN  IF \E j \in 1..(d - 1) : p[j] # "." THEN SubSeq(p, 1, d - 1)
                 ELSE p

RECURSIVE SplitDots(_)
\* s.split('.')
SplitDots(s) ==
    LET dots == {i \in 1..Len(s) : s[i] = "."}
    IN  IF dots = {} THEN <<s>>
        ELSE LET d == CHOOSE i \in dots : \A j \in dots : i <= j
             IN  <<SubSeq(s, 1, d - 1)>> \o SplitDots(SubSeq(s, d + 1, Len(s)))

-----------------------------------------------------------------------------
(* Python values and dicts *)

PStr(s) == [t |-> "str", s |-> s, n |-> 0]
PInt(n) == [t |-> "int", s |-> <<>>, n |-> n]
PNone == [t |-> "NoneType", s |-> <<>>, n |-> 0]
\* numpy.array([n])
PArr(n) == [t |-> "ndarray", s |-> <<>>, n |-> n]

\* bool(v)
Truthy(v) ==
    CASE v.t = "str" -> v.s # <<>>
      [] v.t = "int" -> v.n # 0
      [] v.t = "NoneType" -> FALSE
      [] OTHER -> TRUE

\* str(v)
PyStr(v) ==
    CASE v.t = "str" -> v.s
      [] v.t = "int" -> Digits(v.n)
      [] v.t = "NoneType" -> <<"N", "o", "n", "e">>
      [] OTHER -> <<"[">> \o Digits(v.n) \o <<"]">>

Item(k, v) == [k |-> k, v |-> v]

Keys(d) == {d[i].k : i \in 1..Len(d)}

\* dict.get(key, default)
Get(d, key, default) ==
    IF key \in Keys(d) THEN d[CHOOSE i \in 1..Len(d) : d[i].k = key].v
    ELSE default

-----------------------------------------------------------------------------
(* datetime *)

IsLeap(y) == (y % 4 = 0 /\ y % 100 # 0) \/ y % 400 = 0

DaysInMonth(y, m) ==
    IF m = 2 THEN (IF IsLeap(y) THEN 29 ELSE 28)
    ELSE IF m \in {4, 6, 9, 11} THEN 30 ELSE 31

\* %f: one to six digits, read as a fraction of a second
Micro(f) == Num(f \o [i \in 1..(6 - Len(f)) |-> "0"])

\* Strptime without the datetime constructor's range checks
StrptimeNoRangeCheck(s) ==
    LET f == SplitDots(s)
    IN  IF /\ Len(f) = 7
           /\ \A i \in 1..7 : f[i] # <<>> /\ IsDigits(f[i])
           /\ Len(f[1]) = 4
           /\ \A i \in 2..6 : Len(f[i]) <= 2
           /\ Len(f[7]) <= 6
        THEN [ok |-> TRUE, Y |-> Num(f[1]), m |-> Num(f[2]), d |-> Num(f[3]),
              H |-> Num(f[4]), M |-> Num(f[5]), S |-> Num(f[6]), us |-> Micro(f[7])]
        ELSE [ok |-> FALSE, Y |-> 0, m |-> 0, d |-> 0, H |-> 0, M |-> 0, S |-> 0, us |-> 0]

\* datetime.strptime(s, "%Y.%m.%d.%H.%M.%S.%f"): the directives' patterns (%Y four
\* digits, %m %d %H %M %S one or two digits in their ranges, %f one to six
\* digits) with literal dots between them, then the datetime constructor's own
\* range checks (year >= 1, the day within its month, second <= 59)
Strptime(s) ==
    LET f == SplitDots(s)
        bad == [ok |-> FALSE, Y |-> 0, m |-> 0, d |-> 0, H |-> 0, M |-> 0, S |-> 0, us |-> 0]
    IN  IF /\ Len(f) = 7
           /\ \A i \in 1..7 : f[i] # <<>> /\ IsDigits(f[i])
           /\ Len(f[1]) = 4
           /\ \A i \in 2..6 : Len(f[i]) <= 2
           /\ Len(f[7]) <= 6
           /\ Num(f[2]) \in 1..12
           /\ Num(f[3]) \in 1..31
           /\ Num(f[4]) \in 0..23
           /\ Num(f[5]) \in 0..59
           /\ Num(f[6]) \in 0..61
           /\ Num(f[1]) >= 1
           /\ Num(f[3]) <= DaysInMonth(Num(f[1]), Num(f[2]))
           /\ Num(f[6]) <= 59
        THEN [ok |-> TRUE, Y |-> Num(f[1]), m |-> Num(f[2]), d |-> Num(f[3]),
              H |-> Num(f[4]), M |-> Num(f[5]), S |-> Num(f[6]), us |-> Micro(f[7])]
        ELSE bad

\* Strftime with the format '%Y%m%dT%H%M%S%f'
StrftimeMicro(dt) ==
    Digits(dt.Y) \o Pad2(dt.m) \o Pad2(dt.d) \o <<"T">>
        \o Pad2(dt.H) \o Pad2(dt.M) \o Pad2(dt.S) \o Digits(dt.us)

\* dt.strftime('%Y%m%dT%H%M%S'); the microsecond is not printed
Strftime(dt) ==
    Digits(dt.Y) \o Pad2(dt.m) \o Pad2(dt.d) \o <<"T">>
        \o Pad2(dt.H) \o Pad2(dt.M) \o Pad2(dt.S)

-----------------------------------------------------------------------------
(* json.dump(full_metadata, f, indent=4): one line of the file per brace or item *)

Line(depth, key, kind, text) == [depth |-> depth, key |-> key, kind |-> kind, text |-> text]

K_session_info == <<"session_info">>
K_scan_parameters == <<"scan_parameters">>

\* the values json can encode; anything else raises TypeError
Serialisable(v) == v.t \in {"str", "int", "NoneType"}

JsonItem(item) ==
    CASE item.v.t = "str" -> Line(2, item.k, "str", item.v.s)
      [] item.v.t = "int" -> Line(2, item.k, "num", Digits(item.v.n))
      [] item.v.t = "NoneType" -> Line(2, item.k, "null", <<>>)
      [] OTHER -> Line(2, item.k, "cut", <<>>)

\* one member of the top-level object: "key": {}  or  "key": { items }
JsonObject(key, d) ==
    IF d = <<>> THEN <<Line(1, key, "{}", <<>>)>>
    ELSE <<Line(1, key, "{", <<>>)>> \o [i \in 1..Len(d) |-> JsonItem(d[i])]
             \o <<Line(1, <<>>, "}", <<>>)>>

\* The encoder yields its chunks in order and raises at the first value it cannot
\* encode, its key already yielded: lines holds what reached the file.
JsonDump(full) ==
    LET all == <<Line(0, <<>>, "{", <<>>)>>
                 \o JsonObject(K_session_info, full.session_info)
                 \o JsonObject(K_scan_parameters, full.scan_parameters)
                 \o <<Line(0, <<>>, "}", <<>>)>>
        cuts == {i \in 1..Len(all) : all[i].kind = "cut"}
    IN  IF cuts = {} THEN [err |-> "", lines |-> all]
        ELSE [err |-> "TypeError",
              lines |-> SubSeq(all, 1, CHOOSE i \in cuts : \A j \in cuts : i <= j)]

\* json.load(f)["scan_parameters"] of a file's lines, as a dict of strings
ScanParametersOf(lines) ==
    LET at == {i \in 1..Len(lines) : lines[i].depth = 1 /\ lines[i].key = K_scan_parameters}
    IN  IF at = {} THEN [ok |-> FALSE, items |-> <<>>]
        ELSE LET i == CHOOSE x \in at : TRUE
                 ends == {j \in (i + 1)..Len(lines) :
                              lines[j].depth = 1 /\ lines[j].kind = "}"}
             IN  IF Cardinality(at) # 1 THEN [ok |-> FALSE, items |-> <<>>]
                 ELSE IF lines[i].kind = "{}" THEN [ok |-> TRUE, items |-> <<>>]
                 ELSE IF ends = {} THEN [ok |-> FALSE, items |-> <<>>]
                 ELSE LET j == CHOOSE x \in ends : \A y \in ends : x <= y
                      IN  [ok |-> \A x \in (i + 1)..(j - 1) :
                                      lines[x].depth = 2 /\ lines[x].kind = "str",
                           items |-> [x \in 1..(j - i - 1) |->
                                         Item(lines[i + x].key, lines[i + x].text)]]

-----------------------------------------------------------------------------
(* The filesystem.  The empty path stands for the directories above the     *)
(* dataset root and the acquisition directory, which exist.                *)

Dir == [kind |-> "dir", data |-> <<>>]
File(data) == [kind |-> "file", data |-> data]

Parent(path) == SubSeq(path, 1, Len(path) - 1)

\* os.path.join(path, name)
Join(path, name) == Append(path, name)

\* os.path.exists
Exists(f, path) == path = <<>> \/ path \in DOMAIN f

\* os.path.isdir
IsDir(f, path) == path = <<>> \/ (path \in DOMAIN f /\ f[path].kind = "dir")

\* os.mkdir(path): the error it raises ("" for none) and the filesystem after it
Mkdir(f, path) ==
    IF ~Exists(f, Parent(path)) THEN [err |-> "FileNotFoundError", fs |-> f]
    ELSE IF ~IsDir(f, Parent(path)) THEN [err |-> "NotADirectoryError", fs |-> f]
    ELSE IF Exists(f, path) THEN [err |-> "FileExistsError", fs |-> f]
    ELSE [err |-> "", fs |-> (path :> Dir) @@ f]

\* os.listdir(path): the names of the entries of a directory
Listdir(f, path) ==
    {q[Len(q)] : q \in {r \in DOMAIN f : Len(r) = Len(path) + 1 /\ Parent(r) = path}}

\* shutil.copy(src, dst): the source is opened first, then the destination is
\* created or truncated and filled; a destination that is a directory receives
\* the file under the source's name
ShutilCopy(f, src, dst) ==
    LET target == IF IsDir(f, dst) THEN Join(dst, src[Len(src)]) ELSE dst
    IN  IF ~Exists(f, src) THEN [err |-> "FileNotFoundError", fs |-> f]
        ELSE IF IsDir(f, src) THEN [err |-> "IsADirectoryError", fs |-> f]
        ELSE IF ~Exists(f, Parent(target)) THEN [err |-> "FileNotFoundError", fs |-> f]
        ELSE IF ~IsDir(f, Parent(target)) THEN [err |-> "NotADirectoryError", fs |-> f]
        ELSE IF IsDir(f, target) THEN [err |-> "IsADirectoryError", fs |-> f]
        ELSE [err |-> "", fs |-> (target :> File(f[src].data)) @@ f]

\* OpenW with mode "r+" on an existing file: nothing is truncated
OpenNoTruncate(f, path) ==
    IF ~Exists(f, Parent(path)) THEN [err |-> "FileNotFoundError", fs |-> f]
    ELSE IF ~IsDir(f, Parent(path)) THEN [err |-> "NotADirectoryError", fs |-> f]
    ELSE IF IsDir(f, path) THEN [err |-> "IsADirectoryError", fs |-> f]
    ELSE IF Exists(f, path) THEN [err |-> "", fs |-> f]
    ELSE [err |-> "", fs |-> (path :> File(<<>>)) @@ f]

\* open(path, "w"): the file is created, or truncated if it exists
OpenW(f, path) ==
    IF ~Exists(f, Parent(path)) THEN [err |-> "FileNotFoundError", fs |-> f]
    ELSE IF ~IsDir(f, Parent(path)) THEN [err |-> "NotADirectoryError", fs |-> f]
    ELSE IF IsDir(f, path) THEN [err |-> "IsADirectoryError", fs |-> f]
    ELSE [err |-> "", fs |-> (path :> File(<<>>)) @@ f]

\* what fills the hole when a write lands beyond the end of a file
Nul == Line(0, <<>>, "nul", <<>>)

\* write(data) at offset off through a descriptor that open(path, "w") gave: the
\* data replace what is at the same offsets and nothing after them is removed;
\* a file that another open has truncated in between is extended with a hole
WriteAt(old, off, data) ==
    LET padded == IF Len(old) < off THEN old \o [i \in 1..(off - Len(old)) |-> Nul]
                  ELSE old
    IN  SubSeq(padded, 1, off) \o data
            \o SubSeq(padded, off + Len(data) + 1, Len(padded))

-----------------------------------------------------------------------------
(* The constants of createMirroredDataset *)

dataset_root == << <<"/home/bryant/Desktop/mri_dataset">> >>

subfolders == << <<"mat">>, <<"csv">>, <<"dcm">>, <<"raw">>, <<"seq">> >>

\* file_map, in the order of its items: extension -> (source, destination)
file_map ==
    << [ext |-> <<".", "m", "a", "t">>, src |-> <<"mat">>, dest |-> <<"mat">>],
       [ext |-> <<".", "c", "s", "v">>, src |-> <<"csv">>, dest |-> <<"csv">>],
       [ext |-> <<".", "d", "c", "m">>, src |-> <<"dcm">>, dest |-> <<"dcm">>],
       [ext |-> <<".", "h", "5">>, src |-> <<"ismrmrd">>, dest |-> <<"raw">>] >>

EXT_SEQ == <<".", "s", "e", "q">>

metadata_json == <<"metadata.json">>

K_subject_id == <<"subject_id">>
K_name_string == <<"name_string">>
K_fileName == <<"fileName">>

UnknownSubject == <<"UnknownSubject">>

\* the classes that "except Exception" catches, among those the stages raise
ExceptionClasses ==
    {"ValueError", "TypeError", "AttributeError", "FileNotFoundError",
     "NotADirectoryError", "FileExistsError", "IsADirectoryError"}

None == [kind |-> "None", path |-> <<>>]
Pending == [kind |-> "pending", path |-> <<>>]
Raised == [kind |-> "raised", path |-> <<>>]
Returned(path) == [kind |-> "path", path |-> path]

-----------------------------------------------------------------------------
(* The stages of createMirroredDataset as functions of their inputs *)

\* lines 33-47: the session directory, or the exception the derivation raises
SessionPath(session_info, scan_info) ==
    LET subject == Get(session_info, K_subject_id, PStr(UnknownSubject))
        timestamp_str == Get(scan_info, K_name_string, PNone)
        dt_object == Strptime(timestamp_str.s)
        subject_folder == <<"sub-">> \o Replace(subject.s, " ", "_")
        session_label == <<"ses-">> \o Strftime(dt_object)
    IN  IF subject.t # "str" THEN [err |-> "AttributeError", path |-> <<>>]
        ELSE IF ~Truthy(timestamp_str) THEN [err |-> "ValueError", path |-> <<>>]
        ELSE IF timestamp_str.t # "str" THEN [err |-> "TypeError", path |-> <<>>]
        ELSE IF ~dt_object.ok THEN [err |-> "ValueError", path |-> <<>>]
        ELSE [err |-> "",
              path |-> Join(Join(dataset_root, subject_folder), session_label)]

\* BaseFilename without the check of line 60
BaseFilenameUnchecked(scan_info) ==
    LET fileName == Get(scan_info, K_fileName, PStr(<<>>))
    IN  IF fileName.t # "str" THEN [err |-> "TypeError", base |-> <<>>]
        ELSE [err |-> "", base |-> SplitextRoot(fileName.s)]

\* lines 59-61: the base filename, or the exception
BaseFilename(scan_info) ==
    LET fileName == Get(scan_info, K_fileName, PStr(<<>>))
    IN  IF fileName.t # "str" THEN [err |-> "TypeError", base |-> <<>>]
        ELSE IF SplitextRoot(fileName.s) = <<>> THEN [err |-> "ValueError", base |-> <<>>]
        ELSE [err |-> "", base |-> SplitextRoot(fileName.s)]

\* TryCopy without the test of line 73
TryCopyUnchecked(f, src_path, dest_path) ==
    LET r == ShutilCopy(f, src_path, dest_path)
    IN  [err |-> r.err, fs |-> r.fs, ev |-> "Copied"]

\* lines 72-77, _try_copy: copy if the source exists, else skip; ev is what it prints
TryCopy(f, src_path, dest_path) ==
    IF Exists(f, src_path)
    THEN LET r == ShutilCopy(f, src_path, dest_path)
         IN  [err |-> r.err, fs |-> r.fs, ev |-> "Copied"]
    ELSE [err |-> "", fs |-> f, ev |-> "Skipped"]

\* SeqMatches without the startswith test
SeqMatchesSuffixOnly(seq_file, base_filename) == EndsWith(seq_file, EXT_SEQ)

\* line 92: the entries of the source seq/ that are copied
SeqMatches(seq_file, base_filename) ==
    StartsWith(seq_file, base_filename) /\ EndsWith(seq_file, EXT_SEQ)

\* ScanParameters without the str() of the values
ScanParametersRaw(scan_info) == scan_info

\* line 102: every value of scan_info replaced by its str()
ScanParameters(scan_info) ==
    [i \in 1..Len(scan_info) |-> Item(scan_info[i].k, PStr(PyStr(scan_info[i].v)))]

\* lines 100-103
FullMetadata(session_info, scan_info) ==
    [session_info |-> session_info, scan_parameters |-> ScanParameters(scan_info)]

\* Caught for a handler "except (ValueError, OSError)"
CaughtNarrow(err) == err \in ExceptionClasses \ {"TypeError", "AttributeError"}

\* line 112: whether the handler catches the exception
Caught(err) == err \in ExceptionClasses

-----------------------------------------------------------------------------
(* The inputs the caller passes, and the trees the calls find on disk *)

JaneDoe == <<"J", "a", "n", "e", " ", "D", "o", "e">>
Jane_Doe == <<"J", "a", "n", "e", "_", "D", "o", "e">>

\* session_info: the GUI's session dictionary
SessionInfos ==
    { <<Item(K_subject_id, PStr(JaneDoe))>>,
      <<Item(K_subject_id, PStr(Jane_Doe)), Item(<<"study_id">>, PInt(7))>>,
      <<Item(<<"study_id">>, PInt(7)), Item(<<"comment">>, PNone)>>,
      <<Item(K_subject_id, PStr(JaneDoe)), Item(<<"coil">>, PArr(3)),
        Item(<<"study_id">>, PInt(7))>>,
      <<Item(K_subject_id, PInt(12))>> }

NS_A == <<"2", "0", "2", "4", ".", "0", "3", ".", "1", "5", ".", "0", "9", ".", "3", "0", ".", "0", "0", ".", "1", "2", "3", "4", "5", "6">>
NS_B == <<"2", "0", "2", "4", ".", "0", "3", ".", "1", "5", ".", "0", "9", ".", "3", "0", ".", "0", "0", ".", "5">>
NS_C == <<"2", "0", "2", "4", ".", "3", ".", "1", "5", ".", "9", ".", "3", "0", ".", "0", ".", "1", "2", "3", "4", "5", "6">>
NS_NoDots == <<"2", "0", "2", "4", "-", "0", "3", "-", "1", "5">>
NS_Feb30 == <<"2", "0", "2", "4", ".", "0", "2", ".", "3", "0", ".", "0", "9", ".", "3", "0", ".", "0", "0", ".", "1">>
NS_Sec60 == <<"2", "0", "2", "4", ".", "0", "3", ".", "1", "5", ".", "0", "9", ".", "3", "0", ".", "6", "0", ".", "1">>

X1 == <<"X", "1">>
Y2 == <<"Y", "2">>
X1_mat == <<"X", "1", ".", "m", "a", "t">>
Y2_mat == <<"Y", "2", ".", "m", "a", "t">>
Dot_mat == <<".", "m", "a", "t">>

\* scan_info: the mapVals dictionary of a finished sequence run
Scan_X1_A ==
    <<Item(<<"seqName">>, PStr(<<"RARE">>)), Item(K_name_string, PStr(NS_A)),
      Item(K_fileName, PStr(X1_mat))>>

Scan_X1_B ==
    <<Item(K_name_string, PStr(NS_B)), Item(K_fileName, PStr(X1_mat)),
      Item(<<"nScans">>, PInt(2))>>

Scan_Y2_A ==
    <<Item(<<"seqName">>, PStr(<<"RARE">>)), Item(K_name_string, PStr(NS_A)),
      Item(K_fileName, PStr(Y2_mat)), Item(<<"data">>, PArr(41)),
      Item(<<"note">>, PNone)>>

ScanInfos ==
    { Scan_X1_A, Scan_X1_B, Scan_Y2_A,
      <<Item(K_name_string, PStr(NS_C)), Item(K_fileName, PStr(Dot_mat))>>,
      <<Item(K_name_string, PStr(NS_C)), Item(<<"seqName">>, PStr(<<"RARE">>))>>,
      <<Item(K_name_string, PStr(NS_A)), Item(K_fileName, PStr(<<>>))>>,
      <<Item(K_name_string, PStr(NS_A)), Item(K_fileName, PNone)>>,
      <<Item(K_fileName, PStr(X1_mat))>>,
      <<Item(K_name_string, PStr(<<>>)), Item(K_fileName, PStr(X1_mat))>>,
      <<Item(K_name_string, PStr(NS_NoDots)), Item(K_fileName, PStr(X1_mat))>>,
      <<Item(K_name_string, PStr(NS_Feb30)), Item(K_fileName, PStr(X1_mat))>>,
      <<Item(K_name_string, PStr(NS_Sec60)), Item(K_fileName, PStr(X1_mat))>>,
      <<Item(K_name_string, PInt(20240315)), Item(K_fileName, PStr(X1_mat))>> }

\* primary_save_path: the acquisition directory
Primary == << <<"experiments/acquisitions">> >>

\* what a source file holds: its own name stands for its bytes
SrcData(name) == <<Line(0, name, "raw", <<>>)>>

SrcFile(dir, name) == Join(Join(Primary, dir), name) :> File(SrcData(name))

\* the acquisition directory with its primary folders and the files of scan Y2
SrcBase ==
    (Primary :> Dir) @@ (Join(Primary, <<"mat">>) :> Dir)
        @@ (Join(Primary, <<"csv">>) :> Dir) @@ (Join(Primary, <<"dcm">>) :> Dir)
        @@ (Join(Primary, <<"ismrmrd">>) :> Dir)
        @@ SrcFile(<<"mat">>, Y2 \o file_map[1].ext)
        @@ SrcFile(<<"ismrmrd">>, Y2 \o file_map[4].ext)

\* the primary files of scan X1 that exist: those of file_map's items in present;
\* with dcmIsDir, X1.dcm is a directory
SrcPrimary(present, dcmIsDir) ==
    LET name(i) == X1 \o file_map[i].ext
        path(i) == Join(Join(Primary, file_map[i].src), name(i))
    IN  [q \in {path(i) : i \in present} |->
            IF dcmIsDir /\ q = path(3) THEN Dir
            ELSE File(SrcData(q[Len(q)]))]

X1_seq == <<"X", "1", ".", "s", "e", "q">>
X1_cal_seq == <<"X", "1", "_", "c", "a", "l", ".", "s", "e", "q">>
Y2_seq == <<"Y", "2", ".", "s", "e", "q">>
X1_txt == <<"X", "1", ".", "t", "x", "t">>
X1_d_seq == <<"X", "1", "_", "d", ".", "s", "e", "q">>

\* the source seq/ folder
SrcSeq(mode) ==
    LET d == Join(Primary, <<"seq">>)
    IN  CASE mode = "absent" -> <<>>
          [] mode = "file" -> (d :> File(SrcData(<<"seq">>)))
          [] mode = "empty" -> (d :> Dir)
          [] mode = "full" ->
                (d :> Dir) @@ SrcFile(<<"seq">>, X1_seq) @@ SrcFile(<<"seq">>, X1_cal_seq)
                    @@ SrcFile(<<"seq">>, Y2_seq)
          [] mode = "pair" ->
                (d :> Dir) @@ SrcFile(<<"seq">>, X1_seq) @@ SrcFile(<<"seq">>, Y2_seq)
          [] mode = "nomatch" ->
                (d :> Dir) @@ SrcFile(<<"seq">>, X1_txt)
          [] mode = "subdir" ->
                (d :> Dir) @@ SrcFile(<<"seq">>, X1_seq) @@ (Join(d, X1_d_seq) :> Dir)

\* the dataset root before the first call
DestRoot(mode) ==
    CASE mode = "absent" -> <<>>
      [] mode = "dir" -> (dataset_root :> Dir)
      [] mode = "file" -> (dataset_root :> File(<<>>))

Tree(present, dcmIsDir, seqMode, rootMode) ==
    SrcBase @@ SrcPrimary(present, dcmIsDir) @@ SrcSeq(seqMode) @@ DestRoot(rootMode)

\* the trees of the sequential scenario
Trees ==
    {Tree(present, FALSE, "full", "dir") : present \in SUBSET (1..4)}
        \cup {Tree(1..4, FALSE, m, "dir") : m \in {"absent", "empty", "nomatch", "file", "subdir"}}
        \cup {Tree(1..4, FALSE, "full", m) : m \in {"absent", "file"}}
        \cup {Tree(1..4, TRUE, "full", "dir")}

\* the inputs of the concurrent scenario: calls that succeed when run alone, into
\* the same session directory or into different ones
ConcurrentScanInfos == {Scan_X1_A, Scan_Y2_A}

ConcurrentSessionInfos ==
    { <<Item(K_subject_id, PStr(JaneDoe))>>,
      <<Item(<<"study_id">>, PInt(7)), Item(<<"comment">>, PNone)>> }

\* the trees of the concurrent scenario
ConcurrentTrees == {Tree(1..4, FALSE, "pair", m) : m \in {"absent", "dir"}}

-----------------------------------------------------------------------------
(* The state machine: one invocation per element of Calls *)

NoArgs == [session_info |-> <<>>, scan_info |-> <<>>, primary_save_path |-> <<>>]

NoLocals == [path |-> <<>>, base |-> <<>>, i |-> 0, mk |-> <<>>, todo |-> {}, off |-> 0]

Printed(ev, name) == [ev |-> ev, name |-> name]

InitCommon ==
    /\ pc = [p \in Calls |-> "idle"]
    /\ args = [p \in Calls |-> NoArgs]
    /\ loc = [p \in Calls |-> NoLocals]
    /\ ret = [p \in Calls |-> Pending]
    /\ log = [p \in Calls |-> <<>>]
    /\ fs0 = [p \in Calls |-> <<>>]
    /\ metaEvents = <<>>

Init ==
    /\ fs \in Trees
    /\ concurrent = FALSE
    /\ InitCommon

InitConcurrent ==
    /\ fs \in ConcurrentTrees
    /\ concurrent = TRUE
    /\ InitCommon

\* a statement of invocation p: its next statement, locals, effect and output
Goto(p, npc, nloc, nfs, nlog, nevents) ==
    /\ pc' = [pc EXCEPT ![p] = npc]
    /\ loc' = [loc EXCEPT ![p] = nloc]
    /\ fs' = nfs
    /\ log' = [log EXCEPT ![p] = log[p] \o nlog]
    /\ metaEvents' = metaEvents \o nevents
    /\ UNCHANGED <<concurrent, args, ret, fs0>>

\* lines 112-114: the handler prints the error and returns None; an exception
\* it does not catch reaches the caller
Except(p, err, nfs, nevents) ==
    /\ pc' = [pc EXCEPT ![p] = "done"]
    /\ ret' = [ret EXCEPT ![p] = IF Caught(err) THEN None ELSE Raised]
    /\ log' = [log EXCEPT ![p] =
                  IF Caught(err) THEN log[p] \o <<Printed("CRITICAL ERROR", <<err>>)>>
                  ELSE log[p]]
    /\ fs' = nfs
    /\ metaEvents' = metaEvents \o nevents
    /\ UNCHANGED <<concurrent, args, loc, fs0>>

\* The caller invokes createMirroredDataset: one call after the other, or the two
\* threads' calls at any time.
Call(p) ==
    /\ pc[p] = "idle"
    /\ IF concurrent THEN p \in Threads ELSE \A q \in 1..(p - 1) : pc[q] = "done"
    /\ \E si \in (IF concurrent THEN ConcurrentSessionInfos ELSE SessionInfos) :
       \E sc \in (IF concurrent THEN ConcurrentScanInfos ELSE ScanInfos) :
          args' = [args EXCEPT ![p] = [session_info |-> si, scan_info |-> sc,
                                       primary_save_path |-> Primary]]
    /\ fs0' = [fs0 EXCEPT ![p] = fs]
    /\ pc' = [pc EXCEPT ![p] = "labels"]
    /\ UNCHANGED <<fs, concurrent, loc, ret, log, metaEvents>>

\* lines 30-52: the labels and the session path; the loop over subfolders starts
Labels(p) ==
    /\ pc[p] = "labels"
    /\ LET r == SessionPath(args[p].session_info, args[p].scan_info)
       IN  IF r.err # "" THEN Except(p, r.err, fs, <<>>)
           ELSE Goto(p, "makedirs",
                     [loc[p] EXCEPT !.path = r.path, !.i = 1,
                                    !.mk = <<Join(r.path, subfolders[1])>>],
                     fs, <<>>, <<>>)

\* line 54, os.makedirs(name, exist_ok=True): a missing parent is made first, by
\* the same routine
MakedirsHead(p) ==
    /\ pc[p] = "makedirs"
    /\ LET head == Parent(Head(loc[p].mk))
       IN  IF head # <<>> /\ ~Exists(fs, head)
           THEN Goto(p, "makedirs", [loc[p] EXCEPT !.mk = <<head>> \o loc[p].mk],
                     fs, <<>>, <<>>)
           ELSE Goto(p, "mkdir", loc[p], fs, <<>>, <<>>)

\* what follows a mkdir that made the directory, or whose error was let pass
AfterMkdir(p, nfs) ==
    LET rest == Tail(loc[p].mk)
        i == loc[p].i
    IN  IF rest # <<>> THEN Goto(p, "mkdir", [loc[p] EXCEPT !.mk = rest], nfs, <<>>, <<>>)
        ELSE IF i < Len(subfolders)
        THEN Goto(p, "makedirs",
                  [loc[p] EXCEPT !.i = i + 1,
                                 !.mk = <<Join(loc[p].path, subfolders[i + 1])>>],
                  nfs, <<>>, <<>>)
        ELSE Goto(p, "basename", [loc[p] EXCEPT !.mk = <<>>], nfs, <<>>, <<>>)

\* LetPass for os.makedirs(name) without exist_ok
LetPassNoExistOk(f, name, err, asParent) == asParent /\ err = "FileExistsError"

\* os.makedirs(name, exist_ok=True) on the error of its mkdir: an OSError is let
\* pass when the name is a directory; a FileExistsError for a parent is let pass
\* by the level that asked for the parent; anything else is raised
LetPass(f, name, err, asParent) ==
    \/ IsDir(f, name)
    \/ asParent /\ err = "FileExistsError"

\* line 54, the mkdir of os.makedirs
MakedirsMkdir(p) ==
    /\ pc[p] = "mkdir"
    /\ LET name == Head(loc[p].mk)
           r == Mkdir(fs, name)
       IN  IF r.err = "" \/ LetPass(fs, name, r.err, Len(loc[p].mk) > 1)
           THEN AfterMkdir(p, r.fs)
           ELSE Except(p, r.err, r.fs, <<>>)

\* Basename followed at once by the metadata stage, the copies left out
BasenameThenMeta(p) ==
    /\ pc[p] = "basename"
    /\ LET r == BaseFilename(args[p].scan_info)
       IN  IF r.err # "" THEN Except(p, r.err, fs, <<>>)
           ELSE Goto(p, "meta", [loc[p] EXCEPT !.base = r.base, !.i = 1], fs,
                     <<Printed("Mirroring", r.base)>>, <<>>)

\* lines 59-79: the base filename
Basename(p) ==
    /\ pc[p] = "basename"
    /\ LET r == BaseFilename(args[p].scan_info)
       IN  IF r.err # "" THEN Except(p, r.err, fs, <<>>)
           ELSE Goto(p, "copy", [loc[p] EXCEPT !.base = r.base, !.i = 1], fs,
                     <<Printed("Mirroring", r.base)>>, <<>>)

\* lines 82-85: one item of file_map
CopyPrimary(p) ==
    /\ pc[p] = "copy"
    /\ LET e == file_map[loc[p].i]
           name == loc[p].base \o e.ext
           source_file == Join(Join(args[p].primary_save_path, e.src), name)
           dest_file == Join(Join(loc[p].path, e.dest), name)
           r == TryCopy(fs, source_file, dest_file)
       IN  IF r.err # "" THEN Except(p, r.err, r.fs, <<>>)
           ELSE Goto(p, IF loc[p].i < Len(file_map) THEN "copy" ELSE "seqscan",
                     [loc[p] EXCEPT !.i = loc[p].i + 1], r.fs,
                     <<Printed(r.ev, name)>>, <<>>)

\* lines 88-91: the source seq/ folder is listed, if it exists
SeqScan(p) ==
    /\ pc[p] = "seqscan"
    /\ LET primary_seq_dir == Join(args[p].primary_save_path, <<"seq">>)
           names == Listdir(fs, primary_seq_dir)
       IN  IF ~Exists(fs, primary_seq_dir) THEN Goto(p, "meta", loc[p], fs, <<>>, <<>>)
           ELSE IF ~IsDir(fs, primary_seq_dir)
           THEN Except(p, "NotADirectoryError", fs, <<>>)
           ELSE Goto(p, IF names = {} THEN "meta" ELSE "seqcopy",
                     [loc[p] EXCEPT !.todo = names], fs, <<>>, <<>>)

\* lines 91-95: one entry of the listing, which comes in no particular order
SeqCopy(p) ==
    /\ pc[p] = "seqcopy"
    /\ \E seq_file \in loc[p].todo :
          LET source_file == Join(Join(args[p].primary_save_path, <<"seq">>), seq_file)
              dest_file == Join(Join(loc[p].path, <<"seq">>), seq_file)
              r == IF SeqMatches(seq_file, loc[p].base)
                   THEN TryCopy(fs, source_file, dest_file)
                   ELSE [err |-> "", fs |-> fs, ev |-> ""]
              rest == loc[p].todo \ {seq_file}
          IN  IF r.err # "" THEN Except(p, r.err, r.fs, <<>>)
              ELSE Goto(p, IF rest = {} THEN "meta" ELSE "seqcopy",
                        [loc[p] EXCEPT !.todo = rest], r.fs,
                        IF r.ev = "" THEN <<>> ELSE <<Printed(r.ev, seq_file)>>, <<>>)

\* lines 100-106: open(metadata_path, "w")
MetaOpen(p) ==
    /\ pc[p] = "meta"
    /\ LET r == OpenW(fs, Join(loc[p].path, metadata_json))
       IN  IF r.err # "" THEN Except(p, r.err, r.fs, <<>>)
           ELSE Goto(p, "dump", loc[p], r.fs, <<>>, << <<p, "open">> >>)

\* metadata.json after a write of lines at offset off
Written(f, path, off, lines) == [f EXCEPT ![path] = File(WriteAt(f[path].data, off, lines))]

\* lines 107-110 once the buffer holds the whole output of json.dump: the end of
\* the with block writes it out and closes the file, also when json.dump has
\* raised; then the call returns
CloseAndReturn(p, err, nfs) ==
    IF err # "" THEN Except(p, err, nfs, << <<p, "close">> >>)
    ELSE /\ pc' = [pc EXCEPT ![p] = "done"]
         /\ ret' = [ret EXCEPT ![p] = Returned(loc[p].path)]
         /\ log' = [log EXCEPT ![p] = log[p] \o <<Printed("Saved", metadata_json)>>]
         /\ fs' = nfs
         /\ metaEvents' = metaEvents \o << <<p, "close">> >>
         /\ UNCHANGED <<concurrent, args, loc, fs0>>

\* line 107: json.dump into the buffered file, up to the first time the buffer is
\* full, or to its end and the close of the file
MetaDump(p) ==
    /\ pc[p] = "dump"
    /\ LET d == JsonDump(FullMetadata(args[p].session_info, args[p].scan_info))
           path == Join(loc[p].path, metadata_json)
       IN  IF Len(d.lines) > BufferLines
           THEN Goto(p, "close", [loc[p] EXCEPT !.off = BufferLines],
                     Written(fs, path, 0, SubSeq(d.lines, 1, BufferLines)), <<>>, <<>>)
           ELSE CloseAndReturn(p, d.err, Written(fs, path, 0, d.lines))

\* lines 107-110: the rest of json.dump's output, written at the close
MetaClose(p) ==
    /\ pc[p] = "close"
    /\ LET d == JsonDump(FullMetadata(args[p].session_info, args[p].scan_info))
           path == Join(loc[p].path, metadata_json)
       IN  CloseAndReturn(p, d.err,
               Written(fs, path, loc[p].off,
                       SubSeq(d.lines, loc[p].off + 1, Len(d.lines))))

Next ==
    \E p \in Calls :
        \/ Call(p)
        \/ Labels(p)
        \/ MakedirsHead(p)
        \/ MakedirsMkdir(p)
        \/ Basename(p)
        \/ CopyPrimary(p)
        \/ SeqScan(p)
        \/ SeqCopy(p)
        \/ MetaOpen(p)
        \/ MetaDump(p)
        \/ MetaClose(p)

\* the caller makes its calls one after the other
Spec == Init /\ [][Next]_vars

\* the caller makes two calls from two threads
SpecConcurrent == InitConcurrent /\ [][Next]_vars

-----------------------------------------------------------------------------
(* What the claims speak of *)

Done(p) == pc[p] = "done"

\* no later invocation has begun: the filesystem is as invocation p left it
Latest(p) == \A q \in Calls : q > p => pc[q] = "idle"

HasPrinted(p, ev, name) == \E i \in 1..Len(log[p]) : log[p][i] = Printed(ev, name)

PrintedError(p) == \E i \in 1..Len(log[p]) : log[p][i].ev = "CRITICAL ERROR"

Opened(p) == \E i \in 1..Len(metaEvents) : metaEvents[i] = <<p, "open">>

MetaPath(p) == Join(loc[p].path, metadata_json)

\* the inputs of the model whose name_string is absent, empty or not a timestamp
\* of the format %Y.%m.%d.%H.%M.%S.%f
TimestampBad(p) ==
    LET sc == args[p].scan_info
    IN  \/ K_name_string \notin Keys(sc)
        \/ Get(sc, K_name_string, PNone)
              \in {PStr(<<>>), PStr(NS_NoDots), PStr(NS_Feb30), PStr(NS_Sec60),
                   PInt(20240315)}

SubjectBad(p) == Get(args[p].session_info, K_subject_id, PStr(UnknownSubject)).t # "str"

\* fileName is omitted or empty
FileNameMissing(p) ==
    LET sc == args[p].scan_info
    IN  K_fileName \notin Keys(sc) \/ Get(sc, K_fileName, PNone) = PStr(<<>>)

\* the base identifier of the model's file names
StemOf(p) ==
    LET v == Get(args[p].scan_info, K_fileName, PNone)
    IN  IF v = PStr(X1_mat) THEN X1 ELSE IF v = PStr(Y2_mat) THEN Y2 ELSE Dot_mat

SourceFile(p, i) ==
    Join(Join(args[p].primary_save_path, file_map[i].src), StemOf(p) \o file_map[i].ext)

DestFile(p, i) ==
    Join(Join(loc[p].path, file_map[i].dest), StemOf(p) \o file_map[i].ext)

SourceSeqDir(p) == Join(args[p].primary_save_path, <<"seq">>)

\* name starts with the base identifier and ends with ".seq"
IsSeqOf(name, base) ==
    /\ Len(name) >= Len(base)
    /\ \A i \in 1..Len(base) : name[i] = base[i]
    /\ Len(name) >= 4
    /\ name[Len(name) - 3] = "." /\ name[Len(name) - 2] = "s"
    /\ name[Len(name) - 1] = "e" /\ name[Len(name)] = "q"

\* the entries of the source seq/ that belong to invocation p's scan
SeqEntries(p) ==
    IF IsDir(fs, SourceSeqDir(p)) /\ SourceSeqDir(p) \in DOMAIN fs
    THEN {n \in Listdir(fs, SourceSeqDir(p)) : IsSeqOf(n, StemOf(p))}
    ELSE {}

\* a stage of invocation p raises because of what the inputs hold
InputRaises(p) ==
    \/ SubjectBad(p)
    \/ TimestampBad(p)
    \/ FileNameMissing(p)
    \/ Get(args[p].scan_info, K_fileName, PNone).t # "str"
    \/ \E i \in 1..Len(args[p].session_info) : args[p].session_info[i].v.t = "ndarray"

\* a stage of invocation p raises because of what the disk holds
TreeRaises(p) ==
    \/ dataset_root \in DOMAIN fs /\ fs[dataset_root].kind = "file"
    \/ \E i \in 1..4 : SourceFile(p, i) \in DOMAIN fs /\ fs[SourceFile(p, i)].kind = "dir"
    \/ SourceSeqDir(p) \in DOMAIN fs /\ fs[SourceSeqDir(p)].kind = "file"
    \/ \E n \in SeqEntries(p) : fs[Join(SourceSeqDir(p), n)].kind = "dir"

-----------------------------------------------------------------------------
(* The claims *)

\* C1: createMirroredDataset never propagates an exception: a finished call has
\* returned None or a path; it has returned None exactly when a stage raised (the
\* handler printed the error), which happens exactly when the inputs or the disk
\* make a stage raise, and a path only after the last stage printed "Saved".
C1_NeverPropagates ==
    \A p \in Calls :
        Done(p) =>
            /\ ret[p].kind \in {"None", "path"}
            /\ ret[p].kind = "None" <=> PrintedError(p)
            /\ ret[p].kind = "None" <=> (InputRaises(p) \/ TreeRaises(p))
            /\ ret[p].kind = "path" =>
                  /\ ret[p].path = loc[p].path
                  /\ HasPrinted(p, "Saved", metadata_json)
                  /\ pc[p] = "done"

\* C1 witness: one call has failed in the copy stage and returned None, another
\* has failed in the metadata write and returned None
C1_Witness ==
    \E p, q \in Calls :
        /\ Done(p) /\ ret[p] = None
        /\ HasPrinted(p, "CRITICAL ERROR", <<"IsADirectoryError">>)
        /\ Done(q) /\ ret[q] = None /\ Opened(q)
        /\ HasPrinted(q, "CRITICAL ERROR", <<"TypeError">>)

\* the primary sources of invocation p that exist are regular files
PrimariesRegular(p) ==
    \A i \in 1..4 : SourceFile(p, i) \in DOMAIN fs => fs[SourceFile(p, i)].kind = "file"

\* the copy loop of invocation p is over
CopyLoopOver(p) == loc[p].base # <<>> /\ loc[p].i = 5

\* C2: selective copy.  In a call that has a base filename and whose existing
\* primary sources are files, the copy loop runs to its end; every source it has
\* come to is copied to its destination subfolder if it exists and is skipped if
\* not, in which case the destination is as it was before the call; and when
\* nothing else fails the call returns the session path.
C2_SelectiveCopy ==
    \A p \in Calls :
        (Latest(p) /\ loc[p].base # <<>> /\ PrimariesRegular(p)) =>
            /\ loc[p].base = StemOf(p)
            /\ pc[p] # "copy" => loc[p].i = 5
            /\ \A i \in 1..4 :
                  i < loc[p].i =>
                      IF SourceFile(p, i) \in DOMAIN fs
                      THEN /\ DestFile(p, i) \in DOMAIN fs
                           /\ fs[DestFile(p, i)] = fs[SourceFile(p, i)]
                           /\ HasPrinted(p, "Copied", StemOf(p) \o file_map[i].ext)
                      ELSE /\ ~HasPrinted(p, "Copied", StemOf(p) \o file_map[i].ext)
                           /\ HasPrinted(p, "Skipped", StemOf(p) \o file_map[i].ext)
                           /\ DestFile(p, i) \in DOMAIN fs =>
                                 /\ DestFile(p, i) \in DOMAIN fs0[p]
                                 /\ fs[DestFile(p, i)] = fs0[p][DestFile(p, i)]
            /\ (Done(p) /\ ~InputRaises(p) /\ ~TreeRaises(p)) =>
                  ret[p] = Returned(loc[p].path)

\* C2 witness: a call has returned its path having copied X1.mat and X1.csv and
\* skipped X1.dcm and X1.h5, which are in no destination subfolder
C2_Witness ==
    \E p \in Calls :
        /\ Done(p) /\ Latest(p) /\ ret[p].kind = "path" /\ StemOf(p) = X1
        /\ HasPrinted(p, "Copied", X1 \o file_map[1].ext)
        /\ HasPrinted(p, "Copied", X1 \o file_map[2].ext)
        /\ HasPrinted(p, "Skipped", X1 \o file_map[3].ext)
        /\ HasPrinted(p, "Skipped", X1 \o file_map[4].ext)
        /\ DestFile(p, 1) \in DOMAIN fs /\ DestFile(p, 2) \in DOMAIN fs
        /\ DestFile(p, 3) \notin DOMAIN fs /\ DestFile(p, 4) \notin DOMAIN fs

\* the seq stage of invocation p is over: it has come to the metadata stage
SeqStageOver(p) == pc[p] = "meta" \/ Opened(p)

\* the names invocation p printed as copied in the seq stage
SeqCopied(p) ==
    {log[p][i].name : i \in {j \in 1..Len(log[p]) : log[p][j].ev = "Copied"}}
        \ {StemOf(p) \o file_map[i].ext : i \in 1..4}

\* C3: multi-match sequence copy.  When the seq stage of a call is over, the
\* entries it copied are exactly the entries of the source seq/ whose name starts
\* with the base identifier and ends with ".seq" (none when the source seq/ is
\* missing), each is in the destination seq/ with the source's content, and the
\* destination seq/ holds nothing else that was not there before the call; and
\* the stage is over in every finished call that came to it, unless the source
\* seq is not a directory or an entry to copy is not a file.
C3_SeqCopy ==
    \A p \in Calls :
        /\ (Latest(p) /\ SeqStageOver(p)) =>
              /\ SeqCopied(p) = SeqEntries(p)
              /\ \A n \in SeqEntries(p) :
                    /\ Join(Join(loc[p].path, <<"seq">>), n) \in DOMAIN fs
                    /\ fs[Join(Join(loc[p].path, <<"seq">>), n)]
                          = fs[Join(SourceSeqDir(p), n)]
              /\ \A n \in Listdir(fs, Join(loc[p].path, <<"seq">>)) \ SeqEntries(p) :
                    Join(Join(loc[p].path, <<"seq">>), n) \in DOMAIN fs0[p]
        /\ (Done(p) /\ CopyLoopOver(p)
              /\ ~(SourceSeqDir(p) \in DOMAIN fs /\ fs[SourceSeqDir(p)].kind = "file")
              /\ \A n \in SeqEntries(p) : fs[Join(SourceSeqDir(p), n)].kind = "file")
              => SeqStageOver(p)

\* C3 witness: with X1.seq, X1_cal.seq and Y2.seq in the source seq/ and the base
\* identifier X1, a finished call has copied exactly the first two
C3_Witness ==
    \E p \in Calls :
        /\ Done(p) /\ Latest(p) /\ ret[p].kind = "path" /\ loc[p].base = X1
        /\ Listdir(fs, SourceSeqDir(p)) = {X1_seq, X1_cal_seq, Y2_seq}
        /\ SeqCopied(p) = {X1_seq, X1_cal_seq}
        /\ Listdir(fs, Join(loc[p].path, <<"seq">>)) = {X1_seq, X1_cal_seq}

\* the session directory of invocation p, its parents and its five subfolders
Scaffolding(p) ==
    {SubSeq(loc[p].path, 1, n) : n \in 1..Len(loc[p].path)}
        \cup {Join(loc[p].path, subfolders[i]) : i \in 1..5}

\* C4: required-field failure.  A finished call whose labels were derived and
\* whose fileName is omitted or empty has returned None; everything that was on
\* disk before the call is unchanged, and what the call added are directories of
\* the scaffolding only: no file in any subfolder, no metadata.json.
C4_FileNameMissing ==
    \A p \in Calls :
        (Done(p) /\ Latest(p) /\ ~SubjectBad(p) /\ ~TimestampBad(p) /\ FileNameMissing(p)) =>
            /\ ret[p] = None
            /\ \A q \in DOMAIN fs0[p] : q \in DOMAIN fs /\ fs[q] = fs0[p][q]
            /\ \A q \in DOMAIN fs \ DOMAIN fs0[p] : fs[q] = Dir /\ q \in Scaffolding(p)

\* C4 witness: a call without fileName has returned None and left the session
\* directory and its five subfolders, which were not there before
C4_Witness ==
    \E p \in Calls :
        /\ Done(p) /\ Latest(p) /\ ret[p] = None
        /\ K_fileName \notin Keys(args[p].scan_info)
        /\ loc[p].path # <<>>
        /\ \A q \in Scaffolding(p) : q \in DOMAIN fs /\ q \notin DOMAIN fs0[p]

\* C10: a timestamp failure is free of side effects.  A finished call whose
\* name_string is absent, empty or unparsable has returned None and the
\* filesystem is exactly as it was when the call was made.
C10_TimestampFailure ==
    \A p \in Calls :
        (Done(p) /\ Latest(p) /\ TimestampBad(p)) => ret[p] = None /\ fs = fs0[p]

\* C10 witness: a call with the timestamp 2024.02.30.09.30.00.1 has returned None
\* and the dataset root, absent before, is still absent
C10_Witness ==
    \E p \in Calls :
        /\ Done(p) /\ ret[p] = None
        /\ Get(args[p].scan_info, K_name_string, PNone) = PStr(NS_Feb30)
        /\ ~SubjectBad(p)
        /\ dataset_root \notin DOMAIN fs


\* text is the string representation of the Python value v
IsStrOf(text, v) ==
    CASE v.t = "str" -> text = v.s
      [] v.t = "int" ->
            /\ text # <<>> /\ IsDigits(text) /\ Num(text) = v.n
            /\ Len(text) > 1 => text[1] # "0"
      [] v.t = "NoneType" -> text = <<"N", "o", "n", "e">>
      [] OTHER ->
            /\ Len(text) >= 3 /\ text[1] = "[" /\ text[Len(text)] = "]"
            /\ IsDigits(SubSeq(text, 2, Len(text) - 1))
            /\ Num(SubSeq(text, 2, Len(text) - 1)) = v.n

\* C5: round-trip metadata.  After a successful call the scan_parameters object
\* read back from metadata.json has the key set of scan_info, one item per key,
\* and every value is the string representation of scan_info's value for its key.
C5_RoundTrip ==
    \A p \in Calls :
        (Done(p) /\ Latest(p) /\ ret[p].kind = "path") =>
            /\ MetaPath(p) \in DOMAIN fs
            /\ LET sp == ScanParametersOf(fs[MetaPath(p)].data)
                   sc == args[p].scan_info
               IN  /\ sp.ok
                   /\ Keys(sp.items) = Keys(sc)
                   /\ Len(sp.items) = Len(sc)
                   /\ \A i \in 1..Len(sp.items) :
                         IsStrOf(sp.items[i].v, Get(sc, sp.items[i].k, PNone))

\* C5 witness: a call with an array, a None and strings in scan_info has
\* returned its path, and metadata.json holds "[41]" for the array
C5_Witness ==
    \E p \in Calls :
        /\ Done(p) /\ Latest(p) /\ ret[p].kind = "path"
        /\ args[p].scan_info = Scan_Y2_A
        /\ MetaPath(p) \in DOMAIN fs
        /\ \E i \in 1..Len(fs[MetaPath(p)].data) :
              fs[MetaPath(p)].data[i] = Line(2, <<"data">>, "str", <<"[", "4", "1", "]">>)

DirsOf(f) == {x \in DOMAIN f : f[x].kind = "dir"}

\* invocation p has made its directories without an error
ScaffoldOver(p) ==
    /\ pc[p] \notin {"idle", "labels", "makedirs", "mkdir"}
    /\ loc[p].path # <<>>
    /\ loc[p].mk = <<>>

\* C6: idempotent scaffolding.  When a call whose directory creation went through
\* is followed by a call with identical inputs, the second call adds no
\* directory, its directory creation goes through as well, and it returns what
\* the first call returned.
C6_IdempotentScaffolding ==
    \A p \in Calls : \A q \in Calls :
        (q = p + 1 /\ Latest(q) /\ pc[q] # "idle" /\ args[q] = args[p] /\ ScaffoldOver(p)) =>
            /\ DirsOf(fs) = DirsOf(fs0[q])
            /\ pc[q] \notin {"labels", "makedirs", "mkdir"} => ScaffoldOver(q)
            /\ Done(q) => ret[q] = ret[p]

\* C6 witness: two calls with identical inputs have both returned the same path;
\* the session directory was made by the first
C6_Witness ==
    \E p \in Calls : \E q \in Calls :
        /\ q = p + 1 /\ args[q] = args[p] /\ Done(p) /\ Done(q)
        /\ ret[p].kind = "path" /\ ret[q] = ret[p]
        /\ loc[p].path \notin DOMAIN fs0[p]
        /\ \A i \in 1..5 : Join(loc[q].path, subfolders[i]) \in DirsOf(fs0[q])

SubjectOf(p) == Get(args[p].session_info, K_subject_id, PStr(UnknownSubject))

NameFields(p) == SplitDots(Get(args[p].scan_info, K_name_string, PNone).s)

\* C7: destination path derivation.  A returned path is dataset_root, then "sub-"
\* and the subject_id (UnknownSubject without one) with every space replaced by
\* an underscore, then "ses-" and the timestamp as YYYYMMDDTHHMMSS (years of four
\* digits); two calls with the same subject_id whose name_string agree up to the
\* seconds return the same path.
C7_PathDerivation ==
    /\ \A p \in Calls :
          ret[p].kind = "path" =>
              LET path == ret[p].path
                  subj == SubjectOf(p).s
                  f == NameFields(p)
              IN  /\ Len(path) = 3 /\ path[1] = dataset_root[1]
                  /\ Len(path[2]) = Len(subj) + 1 /\ path[2][1] = "sub-"
                  /\ \A i \in 1..Len(subj) :
                        path[2][i + 1] = IF subj[i] = " " THEN "_" ELSE subj[i]
                  /\ Len(path[3]) = 16 /\ path[3][1] = "ses-" /\ path[3][10] = "T"
                  /\ IsDigits(SubSeq(path[3], 2, 9)) /\ IsDigits(SubSeq(path[3], 11, 16))
                  /\ Num(SubSeq(path[3], 2, 5)) = Num(f[1])
                  /\ Num(SubSeq(path[3], 6, 7)) = Num(f[2])
                  /\ Num(SubSeq(path[3], 8, 9)) = Num(f[3])
                  /\ Num(SubSeq(path[3], 11, 12)) = Num(f[4])
                  /\ Num(SubSeq(path[3], 13, 14)) = Num(f[5])
                  /\ Num(SubSeq(path[3], 15, 16)) = Num(f[6])
    /\ \A p \in Calls : \A q \in Calls :
          (/\ ret[p].kind = "path" /\ ret[q].kind = "path"
           /\ SubjectOf(p) = SubjectOf(q)
           /\ SubSeq(NameFields(p), 1, 6) = SubSeq(NameFields(q), 1, 6))
              => ret[p] = ret[q]

\* C7 witness: the subject "Jane Doe" with the timestamps
\* 2024.03.15.09.30.00.123456 and 2024.03.15.09.30.00.5 has given twice
\* dataset_root/sub-Jane_Doe/ses-20240315T093000
C7_Witness ==
    \E p \in Calls : \E q \in Calls :
        /\ ret[p].kind = "path" /\ ret[q] = ret[p]
        /\ SubjectOf(p) = PStr(JaneDoe) /\ SubjectOf(q) = PStr(JaneDoe)
        /\ Get(args[p].scan_info, K_name_string, PNone) = PStr(NS_A)
        /\ Get(args[q].scan_info, K_name_string, PNone) = PStr(NS_B)
        /\ ret[p].path[2] = <<"sub-">> \o Jane_Doe
        /\ ret[p].path[3] = <<"ses-">> \o <<"2", "0", "2", "4", "0", "3", "1", "5", "T", "0", "9", "3", "0", "0", "0">>

\* the metadata.json files of a filesystem, with what they hold
MetaFiles(f) == {<<x, f[x]>> : x \in {y \in DOMAIN f : y[Len(y)] = metadata_json}}

\* the lines of the record of invocation p: the braces, session_info as given,
\* scan_info as strings
HoldsRecord(data, p) ==
    LET si == args[p].session_info
        sc == args[p].scan_info
        n == Len(si)
        m == Len(sc)
    IN  /\ Len(data) = n + m + 6
        /\ data[1] = Line(0, <<>>, "{", <<>>)
        /\ data[2] = Line(1, K_session_info, "{", <<>>)
        /\ \A i \in 1..n :
              /\ data[2 + i].depth = 2 /\ data[2 + i].key = si[i].k
              /\ CASE si[i].v.t = "str" ->
                        data[2 + i].kind = "str" /\ data[2 + i].text = si[i].v.s
                   [] si[i].v.t = "int" ->
                        data[2 + i].kind = "num" /\ Num(data[2 + i].text) = si[i].v.n
                   [] OTHER -> data[2 + i].kind = "null"
        /\ data[n + 3] = Line(1, <<>>, "}", <<>>)
        /\ data[n + 4] = Line(1, K_scan_parameters, "{", <<>>)
        /\ \A i \in 1..m :
              /\ data[n + 4 + i].depth = 2 /\ data[n + 4 + i].key = sc[i].k
              /\ data[n + 4 + i].kind = "str"
              /\ IsStrOf(data[n + 4 + i].text, sc[i].v)
        /\ data[n + m + 5] = Line(1, <<>>, "}", <<>>)
        /\ data[n + m + 6] = Line(0, <<>>, "}", <<>>)

\* the primary and the sequence files of invocation p's scan are in the
\* destination with the sources' content
AllCopied(p) ==
    /\ \A i \in 1..4 :
          SourceFile(p, i) \in DOMAIN fs =>
              /\ DestFile(p, i) \in DOMAIN fs
              /\ fs[DestFile(p, i)] = fs[SourceFile(p, i)]
    /\ \A n \in SeqEntries(p) :
          /\ Join(Join(loc[p].path, <<"seq">>), n) \in DOMAIN fs
          /\ fs[Join(Join(loc[p].path, <<"seq">>), n)] = fs[Join(SourceSeqDir(p), n)]

\* C9: stage ordering of the metadata write.  No metadata.json is created or
\* changed in a call that has not opened it, whether the call runs or has failed;
\* when a call opens it, the five subfolders exist, the base filename is set, the
\* four primary copies and the sequence copies are done and nothing has raised;
\* and when a call has returned a path, metadata.json holds its record.
C9_MetadataLast ==
    \A p \in Calls :
        Latest(p) =>
            /\ (pc[p] # "idle" /\ ~Opened(p)) => MetaFiles(fs) = MetaFiles(fs0[p])
            /\ Opened(p) =>
                  /\ \A i \in 1..5 : Join(loc[p].path, subfolders[i]) \in DirsOf(fs)
                  /\ loc[p].base # <<>> /\ loc[p].base = StemOf(p)
                  /\ loc[p].i = 5 /\ loc[p].todo = {}
                  /\ AllCopied(p)
                  /\ SeqCopied(p) = SeqEntries(p)
                  /\ pc[p] \in {"dump", "close"} => ~PrintedError(p)
            /\ (Done(p) /\ ret[p].kind = "path") =>
                  /\ Opened(p)
                  /\ MetaPath(p) \in DOMAIN fs
                  /\ HoldsRecord(fs[MetaPath(p)].data, p)

\* C9 witness: a call has failed in the copy or the sequence stage in a session
\* directory where an earlier call had written metadata.json, which still holds
\* the earlier call's record
C9_Witness ==
    \E p \in Calls : \E q \in Calls :
        /\ p < q /\ Latest(q) /\ Done(p) /\ Done(q)
        /\ ret[p].kind = "path" /\ ret[q] = None
        /\ loc[q].path = loc[p].path /\ loc[q].base # <<>> /\ ~Opened(q)
        /\ args[q] # args[p]
        /\ HoldsRecord(fs[MetaPath(q)].data, p)

-----------------------------------------------------------------------------
(* The concurrent scenario *)

\* the lines json.dump writes for invocation p
Record(p) == JsonDump(FullMetadata(args[p].session_info, args[p].scan_info)).lines

ClosedLast(p) == metaEvents # <<>> /\ metaEvents[Len(metaEvents)] = <<p, "close">>

\* invocation p opened metadata.json after invocation q had closed it
OpenedAfter(p, q) ==
    \E i \in 1..Len(metaEvents) : \E j \in 1..Len(metaEvents) :
        i < j /\ metaEvents[i] = <<q, "close">> /\ metaEvents[j] = <<p, "open">>

\* two finished calls into one session directory with different base filenames
SameSession(p, q) ==
    /\ p # q /\ Done(p) /\ Done(q)
    /\ loc[p].path # <<>> /\ loc[p].path = loc[q].path
    /\ StemOf(p) # StemOf(q)

\* C8 as claimed: under every interleaving of two simultaneous calls into one
\* session directory with different base filenames, both return the path, the
\* files of both are in the destination, and metadata.json holds the record of
\* the call that wrote last and nothing else.
C8_LastWriterWins ==
    \A p \in Threads : \A q \in Threads :
        SameSession(p, q) =>
            /\ ret[p] = Returned(loc[p].path) /\ ret[q] = Returned(loc[q].path)
            /\ AllCopied(p) /\ AllCopied(q)
            /\ ClosedLast(p) => fs[MetaPath(p)].data = Record(p)

\* C8 as amended: both return the path and the files of both are in the
\* destination; metadata.json is the record of the call that wrote last when that
\* call opened the file after the other had closed it.  (When the two writes
\* overlap the file may hold parts of both records.)
C8_LastWriterIfNoOverlap ==
    \A p \in Threads : \A q \in Threads :
        SameSession(p, q) =>
            /\ ret[p] = Returned(loc[p].path) /\ ret[q] = Returned(loc[q].path)
            /\ AllCopied(p) /\ AllCopied(q)
            /\ (ClosedLast(p) /\ OpenedAfter(p, q)) =>
                  /\ HoldsRecord(fs[MetaPath(p)].data, p)
                  /\ fs[MetaPath(p)].data = Record(p)

\* C8 witness: two calls into one session directory, one after the other's
\* close; the record of the first was the longer one, and metadata.json holds
\* exactly the record of the second
C8_Witness ==
    \E p \in Threads : \E q \in Threads :
        /\ SameSession(p, q) /\ ClosedLast(p) /\ OpenedAfter(p, q)
        /\ Len(Record(q)) > Len(Record(p))
        /\ fs[MetaPath(p)].data = Record(p)
        /\ ret[p].kind = "path" /\ ret[q].kind = "path"

====
